---- MODULE Spec2Model ----
(***************************************************************************)
(* The application loop of rust-tui-template (async variant).              *)
(*                                                                         *)
(*   src/async/src/app.rs    App::new, App::run                            *)
(*   src/async/src/utils.rs  initialize_panic_handler                      *)
(*                                                                         *)
(* The component (Home), the event source (EventHandler) and the display   *)
(* handle (Tui / TuiHandler) are not part of the sources at hand; they are *)
(* modelled from the specification, as the most general collaborator its   *)
(* contract allows. The host (main) appears only as the caller of run: the *)
(* model ends where App::new returns Err ("new_err"), where App::run       *)
(* returns ("returned") and where the panic hook ends the process          *)
(* ("exited").                                                             *)
(***************************************************************************)
EXTENDS Integers, Sequences, FiniteSets

\* ------------------------------------------------------------------ bounds

\* Events the merged stream delivers in one run.
MaxEvents == 3

\* Length up to which an action chain is recorded; the chain itself is not
\* bounded, only its record (steps saturates at MaxChain + 1).
MaxChain == 2

\* ------------------------------------------------------- program constants

\* libc::EXIT_FAILURE
EXIT_FAILURE == 1

\* ------------------------------------------------------------------ values

\* Event variants; Key stands for every input event that is not a
\* termination request (key, resize).
Events == {"Tick", "Key", "Quit"}

\* Events of the raw-input listener.
InputEvents == {"Key", "Quit"}

\* Action variants; "None" is Option::None of the pending-action register.
Actions == {"Noop", "Quit", "Select"}

None == "None"

OptAction == Actions \cup {None}

VARIABLES
  pc,           \* position of the main task
  rawMode,      \* the terminal is in raw mode / alternate screen
  enterCalls,   \* successful enters of raw mode
  exitCalls,    \* successful restorations of the terminal
  exitAttempts, \* calls of exit(), successful or not
  initCalls,    \* calls of Home::init
  initFailed,   \* Home::init returned Err
  eventsUp,     \* EventHandler::new has run: the producers exist
  closed,       \* the event channel is closed
  chan,         \* events in the merged channel, oldest first
  delivered,    \* every event the stream has delivered, in order
  handled,      \* every event passed to handle_events, in order
  event,        \* the event of the current iteration
  action,       \* the pending-action register: Option<Action>
  is_running,   \* Home.is_running
  renders,      \* calls of terminal.draw
  polls,        \* completed calls of events.next()
  roundRenders, \* draws since the last event was received
  steps,        \* dispatch calls of this iteration (saturating)
  yielded,      \* actions put into the register this iteration, in order
  applied,      \* actions passed to dispatch this iteration, in order
  stopEarly,    \* a dispatch of this iteration cleared is_running and still
                \* returned a follow-up action
  newResult,    \* what App::new returned: "none", "Ok", "Err"
  runResult,    \* what App::run returned: "none", "Ok", "Err"
  tuiFailed,    \* Tui::new returned Err in App::new
  drawFailed,   \* terminal.draw returned Err
  hookLog,      \* steps of the panic hook, in order
  exitCode,     \* the status the process ended with (read when pc = "exited")
  rustLog,      \* the environment variable RUST_LOG: [present, val]
  logPc,        \* position of initialize_logging: "idle", "start", "done",
                \* "failed"
  defaultLevel  \* the level given to tui_logger::set_default_level

vars == <<pc, rawMode, enterCalls, exitCalls, exitAttempts, initCalls,
          initFailed,
          eventsUp, closed, chan, delivered, handled, event, action,
          is_running, renders, polls, roundRenders, steps, yielded, applied,
          stopEarly, newResult, runResult, tuiFailed, drawFailed, hookLog,
          exitCode, rustLog, logPc, defaultLevel>>

termVars == <<rawMode, enterCalls, exitCalls, exitAttempts>>
streamVars == <<eventsUp, closed, chan, delivered>>
roundVars == <<roundRenders, steps, yielded, applied, stopEarly>>
loopVars == <<handled, event, action, is_running, renders, polls>>
resultVars == <<newResult, runResult, tuiFailed, drawFailed, initFailed>>
hookVars == <<hookLog, exitCode>>
logVars == <<rustLog, logPc, defaultLevel>>
appVars == <<pc, termVars, initCalls, streamVars, loopVars, roundVars,
             resultVars, hookVars>>

\* Positions inside App::run.
LoopPcs == {"render", "poll", "handle", "drain", "check"}

\* Positions inside the panic hook.
HookPcs == {"hook_new", "hook_exit", "hook_diag", "hook_process_exit"}

\* The state in which App::new is entered.
AppInit ==
  /\ pc = "new_tui"
  /\ rawMode = FALSE
  /\ enterCalls = 0
  /\ exitCalls = 0
  /\ exitAttempts = 0
  /\ initCalls = 0
  /\ initFailed = FALSE
  /\ eventsUp = FALSE
  /\ closed = FALSE
  /\ chan = <<>>
  /\ delivered = <<>>
  /\ handled = <<>>
  /\ event = "none"
  /\ action = None
  /\ is_running = FALSE
  /\ renders = 0
  /\ polls = 0
  /\ roundRenders = 0
  /\ steps = 0
  /\ yielded = <<>>
  /\ applied = <<>>
  /\ stopEarly = FALSE
  /\ newResult = "none"
  /\ runResult = "none"
  /\ tuiFailed = FALSE
  /\ drawFailed = FALSE
  /\ hookLog = <<>>
  /\ exitCode = 0

\* RUST_LOG is not set.
Unset == [present |-> FALSE, val |-> <<>>]

\* The logging is set up by the host before the App exists; the loop neither
\* reads nor writes it.
Init ==
  /\ AppInit
  /\ rustLog = Unset
  /\ logPc = "idle"
  /\ defaultLevel = "unset"


\* ------------------------------------------------------------ Display handle

\* Tui::new / TuiHandler::new: enters raw mode and the alternate screen, or
\* fails without touching the terminal.
TuiNew(ok) ==
  /\ rawMode' = IF ok THEN TRUE ELSE rawMode
  /\ enterCalls' = IF ok THEN enterCalls + 1 ELSE enterCalls
  /\ UNCHANGED <<exitCalls, exitAttempts>>

\* exit(): restores the terminal; a failed exit leaves the terminal as it
\* was or restored (its state is unknown): left is what it leaves.
TuiExit(ok, left) ==
  /\ exitAttempts' = exitAttempts + 1
  /\ exitCalls' = IF ok THEN exitCalls + 1 ELSE exitCalls
  /\ rawMode' = IF ok THEN FALSE ELSE left
  /\ UNCHANGED enterCalls

\* The handle goes out of scope: nothing is released. The display is left
\* only through exit(), the source relying on the panic hook for cleanup.
TuiDrop == UNCHANGED termVars

\* ---------------------------------------------------------------- component

\* Home::init(): Ok or Err; a successful init leaves is_running either way.
HomeInit == [ok : BOOLEAN, is_running : BOOLEAN]

\* Home::handle_events(e): some action, never None; it may change the
\* component's state.
HomeHandleEvents(e) == [action : Actions, is_running : BOOLEAN]

\* Home::dispatch(a): the follow-up action or None, and the state it leaves.
HomeDispatch(a) == [next : OptAction, is_running : BOOLEAN]

\* ------------------------------------------------------------------ App::new

\* Panic with a hook that goes straight to the diagnostic: nothing is
\* restored before the report.
Panic_DiagFirst == pc' = "hook_diag"

\* A panic! or a failed unwrap(): the installed hook runs.
Panic == pc' = "hook_new"

\* let tui = Tui::new().context(..).unwrap();
NewTui ==
  /\ pc = "new_tui"
  /\ \E ok \in BOOLEAN :
       /\ TuiNew(ok)
       /\ tuiFailed' = ~ok
       /\ IF ok THEN pc' = "new_events" ELSE Panic
  /\ UNCHANGED <<initCalls, streamVars, loopVars, roundVars, newResult,
                 runResult, drawFailed, initFailed, hookVars>>
  /\ UNCHANGED logVars

\* let events = EventHandler::new(tick_rate);
NewEvents ==
  /\ pc = "new_events"
  /\ eventsUp' = TRUE
  /\ pc' = "new_init"
  /\ UNCHANGED <<termVars, initCalls, closed, chan, delivered, loopVars,
                 roundVars, resultVars, hookVars>>
  /\ UNCHANGED logVars

\* NewInit with the error of init() dropped (let _ = home.init();).
NewInit_IgnoreErr ==
  /\ pc = "new_init"
  /\ initCalls' = initCalls + 1
  /\ \E r \in HomeInit :
       /\ initFailed' = ~r.ok
       /\ is_running' = r.is_running
       /\ newResult' = "Ok"
       /\ pc' = "app_ok"
  /\ UNCHANGED <<termVars, streamVars, handled, event, action, renders, polls,
                 roundVars, runResult, tuiFailed, drawFailed, hookVars>>
  /\ UNCHANGED logVars

\* let mut home = Home::default(); home.init()?; Ok(Self { tui, events, home })
NewInit ==
  /\ pc = "new_init"
  /\ initCalls' = initCalls + 1
  /\ \E r \in HomeInit :
       /\ initFailed' = ~r.ok
       /\ IF r.ok
            THEN /\ is_running' = r.is_running
                 /\ newResult' = "Ok"
                 /\ pc' = "app_ok"
            ELSE /\ is_running' = is_running
                 /\ newResult' = "Err"
                 /\ pc' = "new_err"
  /\ TuiDrop
  /\ UNCHANGED <<streamVars, handled, event, action, renders, polls,
                 roundVars, runResult, tuiFailed, drawFailed, hookVars>>
  /\ UNCHANGED logVars

\* ---------------------------------------------------------------- panic hook

\* match TuiHandler::new() { Ok(tui) => .., Err(r) => error!(..) }
HookNew ==
  /\ pc = "hook_new"
  /\ \E ok \in BOOLEAN :
       /\ TuiNew(ok)
       /\ IF ok
            THEN /\ hookLog' = Append(hookLog, "new_ok")
                 /\ pc' = "hook_exit"
            ELSE /\ hookLog' = hookLog \o <<"new_err", "error_logged">>
                 /\ pc' = "hook_diag"
  /\ UNCHANGED <<initCalls, streamVars, loopVars, roundVars, resultVars,
                 exitCode>>
  /\ UNCHANGED logVars

\* HookExit with the result of exit() dropped (let _ = tui.exit();): a
\* failed restoration leaves no trace in the log.
HookExit_Silent ==
  /\ pc = "hook_exit"
  /\ \E ok \in BOOLEAN, left \in {rawMode, FALSE} :
       /\ TuiExit(ok, left)
       /\ hookLog' = Append(hookLog, IF ok THEN "exit_ok" ELSE "exit_err")
  /\ pc' = "hook_diag"
  /\ UNCHANGED <<initCalls, streamVars, loopVars, roundVars, resultVars,
                 exitCode>>
  /\ UNCHANGED logVars

\* if let Err(r) = tui.exit() { error!(..) }
HookExit ==
  /\ pc = "hook_exit"
  /\ \E ok \in BOOLEAN, left \in {rawMode, FALSE} :
       /\ TuiExit(ok, left)
       /\ hookLog' = IF ok THEN Append(hookLog, "exit_ok")
                          ELSE hookLog \o <<"exit_err", "error_logged">>
  /\ pc' = "hook_diag"
  /\ UNCHANGED <<initCalls, streamVars, loopVars, roundVars, resultVars,
                 exitCode>>
  /\ UNCHANGED logVars

\* Settings::auto()...create_panic_handler()(panic_info);
HookDiag ==
  /\ pc = "hook_diag"
  /\ hookLog' = Append(hookLog, "diag")
  /\ pc' = "hook_process_exit"
  /\ UNCHANGED <<termVars, initCalls, streamVars, loopVars, roundVars,
                 resultVars, exitCode>>
  /\ UNCHANGED logVars

\* std::process::exit(libc::EXIT_FAILURE);
HookProcessExit ==
  /\ pc = "hook_process_exit"
  /\ hookLog' = Append(hookLog, "process_exit")
  /\ exitCode' = EXIT_FAILURE
  /\ pc' = "exited"
  /\ UNCHANGED <<termVars, initCalls, streamVars, loopVars, roundVars,
                 resultVars>>
  /\ UNCHANGED logVars


\* -------------------------------------------------------------- event source

\* The producers run from EventHandler::new on, concurrently with the main
\* task, until the EventHandler is dropped (App::new returned Err) or the
\* process has ended.
Producing == eventsUp /\ ~closed /\ pc \notin {"new_err", "exited"}

\* The periodic ticker sends Tick into the merged channel.
TickProducer ==
  /\ Producing
  /\ Len(delivered) < MaxEvents
  /\ chan' = Append(chan, "Tick")
  /\ delivered' = Append(delivered, "Tick")
  /\ UNCHANGED <<pc, termVars, initCalls, eventsUp, closed, loopVars,
                 roundVars, resultVars, hookVars>>
  /\ UNCHANGED logVars

\* The raw-input listener sends key, resize and quit events as they occur.
InputProducer ==
  /\ Producing
  /\ Len(delivered) < MaxEvents
  /\ \E e \in InputEvents :
       /\ chan' = Append(chan, e)
       /\ delivered' = Append(delivered, e)
  /\ UNCHANGED <<pc, termVars, initCalls, eventsUp, closed, loopVars,
                 roundVars, resultVars, hookVars>>
  /\ UNCHANGED logVars

\* The producers stop and the channel closes.
Close ==
  /\ Producing
  /\ closed' = TRUE
  /\ UNCHANGED <<pc, termVars, initCalls, eventsUp, chan, delivered, loopVars,
                 roundVars, resultVars, hookVars>>
  /\ UNCHANGED logVars

\* next() can return: an event is buffered, or the channel is closed (and
\* next() resolves to Quit instead of hanging).
NextReady == chan # <<>> \/ (closed /\ Len(delivered) < MaxEvents)

\* The event next() returns.
NextEvent == IF chan # <<>> THEN Head(chan) ELSE "Quit"

\* The channel after next() returned.
NextChan == IF chan # <<>> THEN Tail(chan) ELSE chan

\* The delivered events after next() returned.
NextDelivered == IF chan # <<>> THEN delivered ELSE Append(delivered, "Quit")

\* ------------------------------------------------------------------ App::run

\* s with x recorded, up to n entries.
Record(s, x, n) == IF Len(s) < n THEN Append(s, x) ELSE s

\* n + 1, saturating at MaxChain + 1.
Bump(n) == IF n <= MaxChain THEN n + 1 ELSE n

\* Render with the result of draw dropped (let _ = ..draw(..);): the loop
\* goes on after a failed draw.
Render_IgnoreErr ==
  /\ pc = "render"
  /\ renders' = renders + 1
  /\ roundRenders' = roundRenders + 1
  /\ \E ok \in BOOLEAN : drawFailed' = ~ok
  /\ pc' = "poll"
  /\ steps' = 0
  /\ yielded' = <<>>
  /\ applied' = <<>>
  /\ stopEarly' = FALSE
  /\ UNCHANGED <<termVars, initCalls, streamVars, handled, event, action,
                 is_running, polls, newResult, runResult, tuiFailed,
                 initFailed, hookVars>>
  /\ UNCHANGED logVars

\* Render in a loop with the stop check at its head (while
\* self.home.is_running { .. }): run returns without drawing when is_running
\* is already false.
Render_WhileLoop ==
  /\ pc = "render"
  /\ IF ~is_running
       THEN /\ pc' = "returned"
            /\ runResult' = "Ok"
            /\ UNCHANGED <<renders, roundRenders, drawFailed>>
       ELSE /\ renders' = renders + 1
            /\ roundRenders' = roundRenders + 1
            /\ runResult' = runResult
            /\ \E ok \in BOOLEAN :
                 /\ drawFailed' = ~ok
                 /\ IF ok THEN pc' = "poll" ELSE Panic
  /\ steps' = 0
  /\ yielded' = <<>>
  /\ applied' = <<>>
  /\ stopEarly' = FALSE
  /\ UNCHANGED <<termVars, initCalls, streamVars, handled, event, action,
                 is_running, polls, newResult, tuiFailed, initFailed,
                 hookVars>>
  /\ UNCHANGED logVars

\* Render with `?` for unwrap(): a failed draw is returned by run as Err.
Render_Propagate ==
  /\ pc = "render"
  /\ renders' = renders + 1
  /\ roundRenders' = roundRenders + 1
  /\ \E ok \in BOOLEAN :
       /\ drawFailed' = ~ok
       /\ IF ok
            THEN /\ pc' = "poll"
                 /\ runResult' = runResult
            ELSE /\ pc' = "returned"
                 /\ runResult' = "Err"
  /\ steps' = 0
  /\ yielded' = <<>>
  /\ applied' = <<>>
  /\ stopEarly' = FALSE
  /\ UNCHANGED <<termVars, initCalls, streamVars, handled, event, action,
                 is_running, polls, newResult, tuiFailed, initFailed,
                 hookVars>>
  /\ UNCHANGED logVars

\* self.tui.terminal.draw(|f| { self.home.render(f, f.size()); }).unwrap();
Render ==
  /\ pc = "render"
  /\ renders' = renders + 1
  /\ roundRenders' = roundRenders + 1
  /\ \E ok \in BOOLEAN :
       /\ drawFailed' = ~ok
       /\ IF ok THEN pc' = "poll" ELSE Panic
  /\ steps' = 0
  /\ yielded' = <<>>
  /\ applied' = <<>>
  /\ stopEarly' = FALSE
  /\ UNCHANGED <<termVars, initCalls, streamVars, handled, event, action,
                 is_running, polls, newResult, runResult, tuiFailed,
                 initFailed, hookVars>>
  /\ UNCHANGED logVars

\* Poll with the event awaited and thrown away (the result of next() is
\* not bound), the loop awaiting the one after it.
Poll_Drop ==
  /\ pc = "poll"
  /\ NextReady
  /\ chan' = NextChan
  /\ delivered' = NextDelivered
  /\ polls' = polls + 1
  /\ roundRenders' = 0
  /\ pc' = IF NextChan # <<>> THEN "poll" ELSE "handle"
  /\ event' = IF NextChan # <<>> THEN event ELSE NextEvent
  /\ UNCHANGED <<termVars, initCalls, eventsUp, closed, handled, action,
                 is_running, renders, steps, yielded, applied, stopEarly,
                 resultVars, hookVars>>
  /\ UNCHANGED logVars

\* let event = self.events.next().await;
Poll ==
  /\ pc = "poll"
  /\ NextReady
  /\ event' = NextEvent
  /\ chan' = NextChan
  /\ delivered' = NextDelivered
  /\ polls' = polls + 1
  /\ roundRenders' = 0
  /\ pc' = "handle"
  /\ UNCHANGED <<termVars, initCalls, eventsUp, closed, handled, action,
                 is_running, renders, steps, yielded, applied, stopEarly,
                 resultVars, hookVars>>
  /\ UNCHANGED logVars

\* HandleEvents that also discards the event buffered behind the one it
\* handles (coalescing): the loop takes from the channel outside next().
HandleEvents_Coalesce ==
  /\ pc = "handle"
  /\ handled' = Append(handled, event)
  /\ \E r \in HomeHandleEvents(event) :
       /\ action' = r.action
       /\ yielded' = <<r.action>>
       /\ is_running' = r.is_running
  /\ event' = "none"
  /\ chan' = IF chan # <<>> THEN Tail(chan) ELSE chan
  /\ pc' = "drain"
  /\ UNCHANGED <<termVars, initCalls, eventsUp, closed, delivered, renders,
                 polls, roundRenders, steps, applied, stopEarly, resultVars,
                 hookVars>>
  /\ UNCHANGED logVars

\* let mut action = Some(self.home.handle_events(event).await);
HandleEvents ==
  /\ pc = "handle"
  /\ handled' = Append(handled, event)
  /\ \E r \in HomeHandleEvents(event) :
       /\ action' = r.action
       /\ yielded' = <<r.action>>
       /\ is_running' = r.is_running
  /\ event' = "none"
  /\ pc' = "drain"
  /\ UNCHANGED <<termVars, initCalls, streamVars, renders, polls,
                 roundRenders, steps, applied, stopEarly, resultVars, hookVars>>
  /\ UNCHANGED logVars

\* DrainStep with `if` for `while`: one dispatch, a follow-up action is left
\* in the register.
DrainStep_Once ==
  /\ pc = "drain"
  /\ action # None
  /\ applied' = Record(applied, action, MaxChain)
  /\ steps' = Bump(steps)
  /\ \E r \in HomeDispatch(action) :
       /\ action' = r.next
       /\ yielded' = IF r.next = None
                        THEN yielded
                        ELSE Record(yielded, r.next, MaxChain + 1)
       /\ is_running' = r.is_running
       /\ stopEarly' =
            (stopEarly \/ (is_running /\ ~r.is_running /\ r.next # None))
  /\ pc' = "check"
  /\ UNCHANGED <<termVars, initCalls, streamVars, handled, event, renders,
                 polls, roundRenders, resultVars, hookVars>>
  /\ UNCHANGED logVars

\* DrainStep with is_running tested inside the drain: the loop is left as
\* soon as a dispatch clears it, follow-up action or not.
DrainStep_BreakOnStop ==
  /\ pc = "drain"
  /\ action # None
  /\ applied' = Record(applied, action, MaxChain)
  /\ steps' = Bump(steps)
  /\ \E r \in HomeDispatch(action) :
       /\ action' = r.next
       /\ yielded' = IF r.next = None
                        THEN yielded
                        ELSE Record(yielded, r.next, MaxChain + 1)
       /\ is_running' = r.is_running
       /\ stopEarly' =
            (stopEarly \/ (is_running /\ ~r.is_running /\ r.next # None))
       /\ IF r.is_running
            THEN /\ pc' = "drain"
                 /\ runResult' = runResult
            ELSE /\ pc' = "returned"
                 /\ runResult' = "Ok"
  /\ UNCHANGED <<termVars, initCalls, streamVars, handled, event, renders,
                 polls, roundRenders, newResult, tuiFailed, drawFailed,
                 initFailed, hookVars>>
  /\ UNCHANGED logVars

\* DrainStep with the action left in the slot dispatched a second time before
\* the follow-up is stored.
DrainStep_Twice ==
  /\ pc = "drain"
  /\ action # None
  /\ applied' = Record(Record(applied, action, MaxChain), action, MaxChain)
  /\ steps' = Bump(steps)
  /\ \E r \in HomeDispatch(action) :
       /\ action' = r.next
       /\ yielded' = IF r.next = None
                        THEN yielded
                        ELSE Record(yielded, r.next, MaxChain + 1)
       /\ is_running' = r.is_running
       /\ stopEarly' =
            (stopEarly \/ (is_running /\ ~r.is_running /\ r.next # None))
  /\ pc' = "drain"
  /\ UNCHANGED <<termVars, initCalls, streamVars, handled, event, renders,
                 polls, roundRenders, resultVars, hookVars>>
  /\ UNCHANGED logVars

\* while action.is_some() { action = self.home.dispatch(action.unwrap()).await; }
\* one iteration of the body
DrainStep ==
  /\ pc = "drain"
  /\ action # None
  /\ applied' = Record(applied, action, MaxChain)
  /\ steps' = Bump(steps)
  /\ \E r \in HomeDispatch(action) :
       /\ action' = r.next
       /\ yielded' = IF r.next = None
                        THEN yielded
                        ELSE Record(yielded, r.next, MaxChain + 1)
       /\ is_running' = r.is_running
       /\ stopEarly' =
            (stopEarly \/ (is_running /\ ~r.is_running /\ r.next # None))
  /\ pc' = "drain"
  /\ UNCHANGED <<termVars, initCalls, streamVars, handled, event, renders,
                 polls, roundRenders, resultVars, hookVars>>
  /\ UNCHANGED logVars

\* while action.is_some(): the condition is false
DrainExit ==
  /\ pc = "drain"
  /\ action = None
  /\ pc' = "check"
  /\ UNCHANGED <<termVars, initCalls, streamVars, loopVars, roundVars,
                 resultVars, hookVars>>
  /\ UNCHANGED logVars

\* Check with the loop continuing at the event poll: no draw between two
\* events.
Check_SkipRender ==
  /\ pc = "check"
  /\ IF ~is_running
       THEN /\ pc' = "returned"
            /\ runResult' = "Ok"
       ELSE /\ pc' = "poll"
            /\ runResult' = runResult
  /\ UNCHANGED <<termVars, initCalls, streamVars, loopVars, roundVars,
                 newResult, tuiFailed, drawFailed, initFailed, hookVars>>
  /\ UNCHANGED logVars

\* if !(self.home.is_running) { break; } ... Ok(())
Check ==
  /\ pc = "check"
  /\ IF ~is_running
       THEN /\ pc' = "returned"
            /\ runResult' = "Ok"
       ELSE /\ pc' = "render"
            /\ runResult' = runResult
  /\ UNCHANGED <<termVars, initCalls, streamVars, loopVars, roundVars,
                 newResult, tuiFailed, drawFailed, initFailed, hookVars>>
  /\ UNCHANGED logVars

\* ---------------------------------------------------------------------- host

\* App constructed -> App.run() invoked.
HostRun ==
  /\ pc = "app_ok"
  /\ pc' = "render"
  /\ UNCHANGED <<termVars, initCalls, streamVars, loopVars, roundVars,
                 resultVars, hookVars>>
  /\ UNCHANGED logVars

\* ------------------------------------------------------- initialize_logging

\* A string is the sequence of its characters. The letters that have an
\* upper-case form here are those of the six level names.
Uppers == <<"A", "B", "C", "D", "E", "F", "G", "I", "N", "O", "R", "T", "U", "W">>

Lowers == <<"a", "b", "c", "d", "e", "f", "g", "i", "n", "o", "r", "t", "u", "w">>

\* char::to_lowercase on these characters.
ToLowerChar(ch) ==
  IF \E i \in 1..Len(Uppers) : Uppers[i] = ch
    THEN Lowers[CHOOSE i \in 1..Len(Uppers) : Uppers[i] = ch]
    ELSE ch

\* char::to_uppercase on these characters.
ToUpperChar(ch) ==
  IF \E i \in 1..Len(Lowers) : Lowers[i] = ch
    THEN Uppers[CHOOSE i \in 1..Len(Lowers) : Lowers[i] = ch]
    ELSE ch

\* str::to_lowercase
ToLowercase(str) == [i \in 1..Len(str) |-> ToLowerChar(str[i])]

\* The level names the match knows.
OFF == <<"o", "f", "f">>
ERROR == <<"e", "r", "r", "o", "r">>
WARN == <<"w", "a", "r", "n">>
INFO == <<"i", "n", "f", "o">>
DEBUG == <<"d", "e", "b", "u", "g">>
TRACE == <<"t", "r", "a", "c", "e">>

\* match val.as_str() { "off" => Off, .., _ => Info }
LevelOf(str) ==
  CASE str = OFF -> "Off"
    [] str = ERROR -> "Error"
    [] str = WARN -> "Warn"
    [] str = INFO -> "Info"
    [] str = DEBUG -> "Debug"
    [] str = TRACE -> "Trace"
    [] OTHER -> "Info"

\* DefaultLevel with the match on the value as it is (no to_lowercase).
DefaultLevel_NoLower(env) ==
  IF env.present THEN LevelOf(env.val) ELSE "Info"

\* std::env::var("RUST_LOG").map_or(LevelFilter::Info, |val| match
\* val.to_lowercase().as_str() { .. })
DefaultLevel(env) ==
  IF env.present THEN LevelOf(ToLowercase(env.val)) ELSE "Info"

\* Every spelling of str in upper- and lower-case letters.
RECURSIVE Spellings(_)
Spellings(str) ==
  IF str = <<>>
    THEN {<<>>}
    ELSE {<<ch>> \o rest : ch \in {str[1], ToUpperChar(str[1])},
                           rest \in Spellings(Tail(str))}

\* Values that spell no level name.
OtherValues ==
  { <<>>, <<"o", "f">>, <<"o", "f", "f", "f">>, <<" ", "o", "f", "f">>,
    <<"i", "n", "f", "o", "s">>, <<"w", "a", "r", "n", "i", "n", "g">>,
    <<"v", "e", "r", "b", "o", "s", "e">>, <<"D", "E", "B", "U">>,
    <<"1">>, <<"t", "r", "a", "c", "e", "=", "1">> }

\* What RUST_LOG may hold when initialize_logging runs.
EnvValues ==
  {Unset} \cup
  { [present |-> TRUE, val |-> v] :
      v \in Spellings(OFF) \cup Spellings(ERROR) \cup Spellings(WARN)
            \cup Spellings(INFO) \cup Spellings(DEBUG) \cup Spellings(TRACE)
            \cup OtherValues }

\* initialize_logging(): the log file is set up (which may fail: `?`), then
\* the default level is derived from RUST_LOG and set.
InitializeLogging ==
  /\ logPc = "start"
  /\ \E fileOk \in BOOLEAN :
       IF fileOk
         THEN /\ defaultLevel' = DefaultLevel(rustLog)
              /\ logPc' = "done"
         ELSE /\ defaultLevel' = defaultLevel
              /\ logPc' = "failed"
  /\ UNCHANGED <<rustLog, appVars>>

\* ------------------------------------------------------------- specification

Next ==
  \/ NewTui
  \/ NewEvents
  \/ NewInit
  \/ HostRun
  \/ Render
  \/ Poll
  \/ HandleEvents
  \/ DrainStep
  \/ DrainExit
  \/ Check
  \/ HookNew
  \/ HookExit
  \/ HookDiag
  \/ HookProcessExit
  \/ TickProducer
  \/ InputProducer
  \/ Close

Spec == Init /\ [][Next]_vars

\* One step of the loop of App::run that does not wait for an event.
LoopStep == Render \/ HandleEvents \/ DrainStep \/ DrainExit \/ Check

\* The runtime keeps driving the task of App::run: a step of the loop that
\* can be taken is taken. Nothing is assumed of the producers.
FairSpec == Spec /\ WF_vars(LoopStep)

\* initialize_logging on every value of RUST_LOG.
LogInit ==
  /\ AppInit
  /\ rustLog \in EnvValues
  /\ logPc = "start"
  /\ defaultLevel = "unset"

LogNext == InitializeLogging

LogSpec == LogInit /\ [][LogNext]_vars


\* ------------------------------------------------------------------- claims

\* The last event passed to handle_events ("none" before the first).
LastHandled == IF handled = <<>> THEN "none" ELSE handled[Len(handled)]

\* The record of this iteration's chain is complete: no more than MaxChain
\* dispatch calls so far.
Recorded == steps <= MaxChain

\* The process is ending through the panic hook, or has ended.
Fatal == pc \in HookPcs \cup {"exited"}

\* C1 (as stated): once the loop has consumed n events and is at rest
\* (awaiting the next event, or returned), it has drawn n + 1 times.
C1_Original ==
  pc \in {"poll", "returned"} => renders = polls + 1

\* C1 (amended): after n events the loop has drawn n + 1 times while it is
\* still running and awaits the next event, and n times once it has
\* returned: the event that stops the loop is not followed by a draw.
C1_RenderCount ==
  /\ pc = "poll" => renders = polls + 1
  /\ pc = "returned" => (renders = polls /\ polls >= 1)

\* The loop has returned after two or more events.
C1_Witness ==
  pc = "returned" /\ polls >= 2 /\ renders = polls

\* The dispatch round of the last event is over and asks for a stop:
\* is_running is false or the event was Quit; or run has returned.
Stopped ==
  \/ pc = "returned"
  \/ pc = "check" /\ (~is_running \/ LastHandled = "Quit")

\* C2: Stopped is terminal. From the end of a dispatch round that left
\* is_running false, or whose event was Quit, the loop draws no more, polls
\* no more, dispatches no more, and returns Ok(()).
C2_StoppedIsTerminal ==
  [][Stopped =>
       /\ Stopped'
       /\ renders' = renders
       /\ polls' = polls
       /\ steps' = steps
       /\ pc' = "returned" => runResult' = "Ok"]_vars

\* C3: a Quit event stops the loop whatever is_running is: Quit is the last
\* event ever handled, and after its round nothing is drawn or polled.
C3_QuitStops ==
  \A i \in 1..Len(handled) :
    handled[i] = "Quit" =>
      /\ i = Len(handled)
      /\ pc \in {"drain", "check", "returned"}

\* C4: the drain of one event makes at most MaxChain (the declared bound K)
\* dispatch calls; beyond that a fatal error is surfaced.
C4_DrainBounded ==
  steps > MaxChain => Fatal

\* C5: a chain of k actions costs k dispatch calls, in chain order, with no
\* draw and no poll from the receipt of the event to the end of the drain,
\* and exactly one draw before the next poll.
C5_ChainRound ==
  /\ pc \in {"handle", "drain", "check"} => roundRenders = 0
  /\ pc = "handle" => Len(handled) = polls - 1
  /\ pc \in {"drain", "check"} => Len(handled) = polls
  /\ (pc = "drain" /\ Recorded) =>
       /\ Len(applied) = steps
       /\ applied = SubSeq(yielded, 1, steps)
       /\ Len(yielded) = IF action = None THEN steps ELSE steps + 1
       /\ action # None => action = yielded[Len(yielded)]
  /\ (pc = "check" /\ Recorded) =>
       /\ steps = Len(yielded)
       /\ steps >= 1
       /\ applied = yielded
  /\ (pc = "poll" /\ polls >= 1) => roundRenders = 1

\* A chain of two actions has been applied and leaves is_running true.
C5_Witness ==
  /\ pc = "check"
  /\ is_running
  /\ steps = 2
  /\ applied = <<"Select", "Noop">>
  /\ yielded = applied

\* C6: is_running is looked at only once the register is empty: when run
\* returns, every action of the last chain has been applied, also those that
\* followed the dispatch that cleared is_running.
C6_Cooperative ==
  /\ pc \in {"check", "returned"} => action = None
  /\ pc = "returned" =>
       /\ ~is_running
       /\ runResult = "Ok"
       /\ Recorded => (applied = yielded /\ Len(applied) = steps)

\* run has returned after a dispatch cleared is_running and still returned a
\* follow-up action; that action was applied.
C6_Witness ==
  /\ pc = "returned"
  /\ stopEarly
  /\ steps = 2
  /\ applied = yielded

\* C7: the events are handled in the order delivered, one per iteration,
\* none skipped or handled twice, and an event is taken only when the chain
\* of the one before is complete.
C7_InOrder ==
  /\ delivered = handled \o (IF pc = "handle" THEN <<event>> ELSE <<>>) \o chan
  /\ polls = Len(handled) + (IF pc = "handle" THEN 1 ELSE 0)
  /\ pc \in {"render", "poll", "handle"} => action = None

\* Two different events have been handled and a third waits in the channel.
C7_Witness ==
  /\ pc = "poll"
  /\ Len(handled) = 2
  /\ handled[1] # handled[2]
  /\ chan # <<>>

\* C8: the process never ends with raw mode active; raw mode is entered
\* once and left once.
C8_RestoredAtExit ==
  pc = "exited" => (~rawMode /\ enterCalls <= 1 /\ exitCalls = enterCalls)

\* C9: a failing Tui::new makes App::new return an error: no panic.
C9_SetupErrorReturned ==
  tuiFailed => (newResult = "Err" /\ ~Fatal)

\* C10: init() is called once, before the loop; when it fails App::new
\* returns the error and nothing of the loop ever runs.
C10_InitOnce ==
  /\ initCalls <= 1
  /\ pc \in LoopPcs \cup {"app_ok", "returned"} =>
       (initCalls = 1 /\ ~initFailed /\ newResult = "Ok")
  /\ initFailed =>
       /\ newResult = "Err"
       /\ pc = "new_err"
       /\ renders = 0 /\ polls = 0 /\ steps = 0
       /\ handled = <<>> /\ applied = <<>>
       /\ runResult = "none"

\* init() has failed and App::new has returned its error.
C10_Witness ==
  initFailed /\ pc = "new_err" /\ initCalls = 1 /\ newResult = "Err"

\* C11: when init() fails in App::new, the terminal is untouched at the
\* moment the error is returned: raw mode was never entered, or has been
\* left again.
C11_NoMutationOnInitError ==
  (pc = "new_err" /\ initFailed) => (~rawMode /\ enterCalls = exitCalls)

\* The panic hook has made its attempt to restore the terminal: it has
\* asked for the handle, and called exit() on the handle it got.
RestoreAttempted ==
  /\ hookLog # <<>>
  /\ hookLog[1] \in {"new_ok", "new_err"}
  /\ hookLog[1] = "new_ok" =>
       (Len(hookLog) >= 2 /\ hookLog[2] \in {"exit_ok", "exit_err"})

\* e occurs in the log of the hook.
Logged(e) == \E i \in 1..Len(hookLog) : hookLog[i] = e

\* C12: a failed draw is fatal. After it no event is polled and no action
\* dispatched; the hook attempts the restoration before it reports the
\* failure, and the process ends with a non-zero status.
C12_RenderFailureFatal ==
  drawFailed =>
    /\ Fatal
    /\ renders = polls + 1
    /\ steps = 0 /\ applied = <<>> /\ action = None
    /\ runResult = "none"
    /\ Logged("diag") => RestoreAttempted
    /\ pc = "exited" => (exitCode = EXIT_FAILURE /\ exitCode # 0)

\* A draw has failed after an event was handled, and the process has ended.
C12_Witness ==
  drawFailed /\ pc = "exited" /\ polls >= 1 /\ Logged("diag")

\* s is a prefix of t.
IsPrefix(s, t) == Len(s) <= Len(t) /\ s = SubSeq(t, 1, Len(s))

\* The orders in which the hook may take its steps, start to end.
HookOrders ==
  { <<"new_ok", "exit_ok", "diag", "process_exit">>,
    <<"new_ok", "exit_err", "error_logged", "diag", "process_exit">>,
    <<"new_err", "error_logged", "diag", "process_exit">> }

\* C13: the hook first attempts the restoration, then emits the diagnostic,
\* then ends the process with a non-zero status; the diagnostic never comes
\* before the attempt.
C13_HookOrder ==
  /\ \E o \in HookOrders : IsPrefix(hookLog, o)
  /\ Logged("diag") => RestoreAttempted
  /\ pc = "hook_process_exit" => Logged("diag")
  /\ pc = "exited" =>
       /\ hookLog \in HookOrders
       /\ exitCode = EXIT_FAILURE

\* The hook has run to its end on the path where exit() succeeded.
C13_Witness ==
  pc = "exited" /\ hookLog = <<"new_ok", "exit_ok", "diag", "process_exit">>

\* How often e occurs in the log of the hook.
Count(e) == Cardinality({i \in 1..Len(hookLog) : hookLog[i] = e})

\* The restoration has failed in the hook: no handle, or exit() failed.
RestoreFailed == Logged("new_err") \/ Logged("exit_err")

\* C14: a restoration that fails in the hook is logged, at once and once,
\* is not tried again, and the process still ends with EXIT_FAILURE, as it
\* does when the restoration succeeded.
C14_TeardownFailure ==
  /\ \A i \in 1..Len(hookLog) :
       hookLog[i] \in {"new_err", "exit_err"} =>
         (i < Len(hookLog) /\ hookLog[i + 1] = "error_logged")
  /\ Count("error_logged") = Count("new_err") + Count("exit_err")
  /\ Count("new_ok") + Count("new_err") <= 1
  /\ Count("exit_ok") + Count("exit_err") <= 1
  /\ exitAttempts <= 1
  /\ pc = "exited" => (exitCode = EXIT_FAILURE /\ Count("process_exit") = 1)

\* The hook has ended the process after exit() failed.
C14_Witness ==
  pc = "exited" /\ Logged("exit_err") /\ exitCode = EXIT_FAILURE

\* The level the claim gives to a value of RUST_LOG: the level named, Info
\* for every other value.
NamedLevel(str) ==
  CASE str = OFF -> "Off"
    [] str = ERROR -> "Error"
    [] str = WARN -> "Warn"
    [] str = INFO -> "Info"
    [] str = DEBUG -> "Debug"
    [] str = TRACE -> "Trace"
    [] OTHER -> "Info"

\* C15 (as stated): the default level is the one RUST_LOG names when its
\* value is off, error, warn, info, debug or trace, and Info for every other
\* value and when the variable is absent.
C15_Original ==
  logPc = "done" =>
    defaultLevel = IF rustLog.present THEN NamedLevel(rustLog.val) ELSE "Info"

\* C15 (amended): the names are recognised in any letter case ("OFF",
\* "Debug"); Info is the level of the values that spell none of the six
\* names in any case, and of the absent variable.
C15_LogLevel ==
  logPc = "done" =>
    /\ (rustLog.present /\ rustLog.val \in Spellings(OFF)) => defaultLevel = "Off"
    /\ (rustLog.present /\ rustLog.val \in Spellings(ERROR)) => defaultLevel = "Error"
    /\ (rustLog.present /\ rustLog.val \in Spellings(WARN)) => defaultLevel = "Warn"
    /\ (rustLog.present /\ rustLog.val \in Spellings(INFO)) => defaultLevel = "Info"
    /\ (rustLog.present /\ rustLog.val \in Spellings(DEBUG)) => defaultLevel = "Debug"
    /\ (rustLog.present /\ rustLog.val \in Spellings(TRACE)) => defaultLevel = "Trace"
    /\ (~rustLog.present \/ rustLog.val \in OtherValues) => defaultLevel = "Info"

\* The level has been set from RUST_LOG=Debug.
C15_Witness ==
  /\ logPc = "done"
  /\ rustLog = [present |-> TRUE, val |-> <<"D", "e", "b", "u", "g">>]
  /\ defaultLevel = "Debug"

\* The content of the pending-action register as a sequence: empty or one
\* action.
Pending == IF action = None THEN <<>> ELSE <<action>>

\* C16: the register holds at most one action; the actions placed in it in
\* the current round (by handle_events and by each dispatch) are, in order,
\* the actions applied so far followed by the one still pending, so a
\* follow-up replaces the action just applied and every action placed is
\* applied exactly once by the time the drain ends.
C16_SingleSlot ==
  /\ action \in OptAction
  /\ Len(Pending) <= 1
  /\ Recorded => yielded = applied \o Pending
  /\ (Recorded /\ pc = "check") => (action = None /\ applied = yielded)
  /\ pc \notin {"drain", "check"} => action = None

\* A round in which a follow-up replaced the first action and both were
\* applied.
C16_Witness ==
  /\ pc = "check"
  /\ Len(yielded) = 2
  /\ applied = yielded
  /\ action = None

\* C17 (as stated): the producers interleave with the loop only while it
\* waits in next(): between handle_events and the end of the drain nothing
\* is sent into the channel and it is not closed.
C17_Original ==
  [][pc = "drain" => (chan' = chan /\ delivered' = delivered /\ closed' = closed)]_vars

\* C17 (amended): handle_events and dispatch are awaited too and the producers
\* run concurrently with the loop, so events are sent at any time; but the
\* loop takes from the channel only in next(): in every other step the
\* channel only grows at its end and no event is consumed, and a step in
\* which a producer sends during handle_events or the drain leaves the
\* loop's position, register and component state as they are.
C17_OnlyNextConsumes ==
  [][/\ pc # "poll" => (IsPrefix(chan, chan') /\ polls' = polls)
     /\ (pc \in {"handle", "drain"} /\ chan' # chan) =>
          /\ pc' = pc
          /\ action' = action
          /\ is_running' = is_running
          /\ applied' = applied
          /\ handled' = handled]_vars

\* An event sent while the first event's chain is being drained waits in the
\* channel: it has been delivered and not polled.
C17_Witness ==
  /\ pc = "drain"
  /\ steps = 1
  /\ action # None
  /\ polls = 1
  /\ Len(delivered) = 2
  /\ Len(chan) = 1

\* C18: the stop check comes last in the loop body: whatever is_running was
\* when run was entered, run has returned only after at least one draw, one
\* event taken and handled, and a drain that applied at least one action and
\* left the register empty; before the first event is handled the loop is
\* never at the stop check.
C18_DoWhile ==
  /\ pc = "returned" =>
       /\ renders >= 1
       /\ polls >= 1
       /\ Len(handled) = polls
       /\ steps >= 1
       /\ action = None
       /\ Recorded => applied = yielded
  /\ pc \in {"check", "returned"} => handled # <<>>

\* run was entered with is_running false and the loop has nevertheless drawn
\* once and awaits its first event.
C18_Witness ==
  /\ pc = "poll"
  /\ ~is_running
  /\ renders = 1
  /\ polls = 0
  /\ handled = <<>>

\* Every action chain is finite: the loop does not stay in the drain forever.
ChainsFinite == []<>(pc # "drain")

\* Every draw succeeds.
RenderingSucceeds == [](~drawFailed)

\* The event taken in this round has been followed by a draw.
RenderedAfterEvent == pc = "poll" /\ roundRenders = 1

\* C19: if every chain is finite and every draw succeeds, an event taken from
\* the stream is eventually followed by a draw (the loop is back at the poll,
\* having drawn once since) or by the return of run; an event is taken only
\* when one is ready, and as long as none has been taken the loop has drawn
\* at most once, applied nothing and, once drawn, waits at the poll.
C19_Liveness ==
  /\ (ChainsFinite /\ RenderingSucceeds) =>
       ((pc = "handle") ~> (RenderedAfterEvent \/ pc = "returned"))
  /\ [][polls' # polls => (pc = "poll" /\ NextReady)]_vars
  /\ []((pc \in LoopPcs /\ polls = 0) =>
          /\ pc \in {"render", "poll"}
          /\ handled = <<>> /\ steps = 0 /\ applied = <<>> /\ action = None
          /\ pc = "render" => renders = 0
          /\ pc = "poll" => renders = 1)

\* One event has been taken, its chain drained and the result drawn; the loop
\* waits for the next event.
C19_Witness ==
  /\ pc = "poll"
  /\ polls = 1
  /\ Len(handled) = 1
  /\ renders = 2
  /\ roundRenders = 1

\* C20: run yields no Err: its result is Ok, given exactly when it has
\* returned, which it does only with is_running false and no failed draw; a
\* failed draw leaves run without a result and the process in the panic
\* hook (or ended by it).
C20_NeverErr ==
  /\ runResult \in {"none", "Ok"}
  /\ runResult = "Ok" <=> pc = "returned"
  /\ pc = "returned" => (~is_running /\ ~drawFailed)
  /\ drawFailed => (Fatal /\ runResult = "none")

\* The second draw has failed: the panic hook has started and run has no
\* result.
C20_Witness ==
  /\ drawFailed
  /\ pc = "hook_new"
  /\ renders = 2
  /\ runResult = "none"

====
